---- MODULE Spec2Model ----
(***************************************************************************)
(* A model of sla_customization/services/sla_engine.py: the scheduler      *)
(* entry point run(), the timestamp recorders, the two milestone handlers, *)
(* the mail sender and the auto-closer, together with the HD Ticket store  *)
(* they read and the Sla Update store they write.                          *)
(*                                                                         *)
(* Time is an integer number of days.  An absent (None) field is the empty *)
(* sequence and a present one a one-element sequence, so that a date and   *)
(* its absence never meet in one comparison.                               *)
(***************************************************************************)
EXTENDS Integers, Sequences, FiniteSets, TLC

\* ------------------------------------------------------------------ bounds
\* The clock runs from 0 to MaxTime.
MaxTime == 4
\* The number of changes the ticketing side makes to tickets in one behaviour.
MaxEnvChanges == 2
\* The number of store and mail failures in one behaviour.
MaxFailures == 1
\* The times get_percentage is called with, on its own, run from 0 to MaxCalcTime.
MaxCalcTime == 4

\* ---------------------------------------------------------------- constants
\* add_days(doc.resolution_date, 2)
GraceDays == 2

Tickets == {1, 2}
Statuses == {"Open", "In-Progress", "Resolved", "Closed"}
Dimensions == {"first response", "resolution"}
\* for milestone in (50, 75, 100)
Milestones == <<50, 75, 100>>
MilestoneSet == {Milestones[i] : i \in 1..Len(Milestones)}

None == <<>>
Some(v) == <<v>>
IsSet(f) == f # None
Val(f) == f[1]

Min(a, b) == IF a <= b THEN a ELSE b

\* The users a ticket can be assigned to, and the email of each User document:
\* the guest account has none.
Users == {"agent", "guest"}
EmailOf(user) == IF user = "agent" THEN Some("agent@example.com") ELSE None

\* The creation time and the two deadlines the helpdesk gave each ticket.
\* Ticket 1 has ten-day windows that are six days old when the clock starts
\* (60% elapsed at 0, 90% at 3, over at 4); ticket 2 has a four-day response
\* window that starts with the clock (50% at 2, 75% at 3), and no resolution
\* deadline.
PlanOf(n) ==
    IF n = 1
    THEN [creation |-> Some(0 - 6), response_by |-> Some(4), resolution_by |-> Some(4)]
    ELSE [creation |-> Some(0), response_by |-> Some(4), resolution_by |-> None]

VARIABLES
    now,          \* now_datetime()
    tickets,      \* the HD Ticket table: ticket name -> document
    slaUpdates,   \* the Sla Update table: ticket_id -> document, or None
    pc,           \* where run() is: "idle", "state", "first response", "resolution"
    queue,        \* the documents the running loop of run() still has to visit
    notified,     \* calls of send_email per (ticket, dimension, milestone), capped at 2
    lastEval,     \* what the latest call of a milestone handler saw and did
    cycle,        \* what the current (or latest) call of run() fetched and visited
    quiet,        \* nothing but run() has acted since the latest run() started
    envChanges,   \* changes the ticketing side has made so far
    failures,     \* store and mail failures so far
    assignees,    \* allocated_to of the first Open ToDo of each ticket, or None
    mailed,       \* mails frappe.sendmail sent per (ticket, dimension, milestone), capped at 2
    store,        \* the Sla Update table as rows, for calls of run() that overlap
    workers,      \* the calls of run() that overlap: where each is and what it holds
    calc          \* a call of get_percentage: its arguments, the clock and its result

vars ==
    <<now, tickets, slaUpdates, pc, queue, notified, lastEval, cycle, quiet,
      envChanges, failures, assignees, mailed, store, workers, calc>>

\* The state that only the specifications of overlapping calls and of the
\* percentage use.
aside == <<store, workers, calc>>

NoFlags == [m \in MilestoneSet |-> FALSE]

\* No call of get_percentage on its own.
NoCalc == [start |-> None, due |-> None, t |-> 0, result |-> None]

\* The scheduler workers that can each be in a call of run().
Workers == {"w1", "w2"}

\* A worker outside run(): ticket is the ticket of the loop pass it is in, row
\* the Sla Update row it loaded, doc its copy of that row, stale whether the
\* row was saved by another since, and error how its latest pass ended.
IdleWorker ==
    [pc |-> "idle", ticket |-> None, row |-> None, doc |-> None,
     stale |-> FALSE, error |-> "none"]

NewSlaUpdate ==
    [first_responded_on |-> None, resolution_date |-> None,
     fr |-> NoFlags, res |-> NoFlags]

Phases == {"state", "first response", "resolution"}

\* The bookkeeping of one call of run(): the tickets each loop fetched and the
\* ones it visited, the ticket an exception was raised on, the tickets
\* close_resolved_tickets closed, how the call ended ("running", "returned" after
\* close_resolved_tickets, "raised"), whether the call follows a returned,
\* undisturbed call with nothing in between (repeat), and for such a call the
\* Sla Update table it started from and the number of its send_email calls.
NewCycle(repeat, table) ==
    [fetched |-> [p \in Phases |-> {}], visited |-> [p \in Phases |-> {}],
     failedOn |-> {}, closedNow |-> {},
     ended |-> "running", repeat |-> repeat,
     before |-> IF repeat THEN Some(table) ELSE None, sent |-> 0]

NoCycle == [NewCycle(FALSE, None) EXCEPT !.ended = "never"]

\* ------------------------------------------------------- the pure functions

\* get_percentage with a lower clamp at 0 as well.
GetPercentageClamped(start, due, t) ==
    IF ~IsSet(start) \/ ~IsSet(due) THEN 0
    ELSE LET total == Val(due) - Val(start)
             elapsed == t - Val(start)
         IN  IF total <= 0 THEN 100
             ELSE IF elapsed < 0 THEN 0
             ELSE Min((elapsed * 100) \div total, 100)

\* get_percentage without the min(..., 100).
GetPercentageUnclamped(start, due, t) ==
    IF ~IsSet(start) \/ ~IsSet(due) THEN 0
    ELSE LET total == Val(due) - Val(start)
             elapsed == t - Val(start)
         IN  IF total <= 0 THEN 100
             ELSE (elapsed * 100) \div total

\* get_percentage returning the elapsed fraction, the factor 100 left out.
GetPercentageAsFraction(start, due, t) ==
    IF ~IsSet(start) \/ ~IsSet(due) THEN 0
    ELSE LET total == Val(due) - Val(start)
             elapsed == t - Val(start)
         IN  IF total <= 0 THEN 100
             ELSE Min(elapsed \div total, 100)

\* get_percentage(start, due), with now_datetime() as a parameter.  The code
\* divides floats; every use compares the result with an integer milestone,
\* which the floor of the quotient decides in the same way.
get_percentage(start, due, t) ==
    IF ~IsSet(start) \/ ~IsSet(due) THEN 0
    ELSE LET total == Val(due) - Val(start)
             elapsed == t - Val(start)
         IN  IF total <= 0 THEN 100
             ELSE Min((elapsed * 100) \div total, 100)

\* The loop mailing and flagging the highest milestone crossed only.
RECURSIVE MilestoneLoopHighestOnly(_, _, _, _)
MilestoneLoopHighestOnly(pct, flags, sent, i) ==
    IF i > Len(Milestones) THEN [flags |-> flags, sent |-> sent]
    ELSE LET milestone == Milestones[i]
         IN  IF pct < milestone THEN MilestoneLoopHighestOnly(pct, flags, sent, i + 1)
             ELSE IF i < Len(Milestones) /\ pct >= Milestones[i + 1]
                  THEN MilestoneLoopHighestOnly(pct, flags, sent, i + 1)
             ELSE IF flags[milestone] THEN MilestoneLoopHighestOnly(pct, flags, sent, i + 1)
             ELSE MilestoneLoopHighestOnly(pct, [flags EXCEPT ![milestone] = TRUE],
                                           Append(sent, milestone), i + 1)

\* The loop with the test of the notified flag left out.
RECURSIVE MilestoneLoopNoCheck(_, _, _, _)
MilestoneLoopNoCheck(pct, flags, sent, i) ==
    IF i > Len(Milestones) THEN [flags |-> flags, sent |-> sent]
    ELSE LET milestone == Milestones[i]
         IN  IF pct < milestone THEN MilestoneLoopNoCheck(pct, flags, sent, i + 1)
             ELSE MilestoneLoopNoCheck(pct, [flags EXCEPT ![milestone] = TRUE],
                                       Append(sent, milestone), i + 1)

\* The loop with the setattr of the notified flag left out.
RECURSIVE MilestoneLoopNoSet(_, _, _, _)
MilestoneLoopNoSet(pct, flags, sent, i) ==
    IF i > Len(Milestones) THEN [flags |-> flags, sent |-> sent]
    ELSE LET milestone == Milestones[i]
         IN  IF pct < milestone THEN MilestoneLoopNoSet(pct, flags, sent, i + 1)
             ELSE IF flags[milestone] THEN MilestoneLoopNoSet(pct, flags, sent, i + 1)
             ELSE MilestoneLoopNoSet(pct, flags, Append(sent, milestone), i + 1)

\* The loop leaving (break) after the first milestone it mails.
RECURSIVE MilestoneLoopBreak(_, _, _, _)
MilestoneLoopBreak(pct, flags, sent, i) ==
    IF i > Len(Milestones) THEN [flags |-> flags, sent |-> sent]
    ELSE LET milestone == Milestones[i]
         IN  IF pct < milestone THEN MilestoneLoopBreak(pct, flags, sent, i + 1)
             ELSE IF flags[milestone] THEN MilestoneLoopBreak(pct, flags, sent, i + 1)
             ELSE [flags |-> [flags EXCEPT ![milestone] = TRUE],
                   sent |-> Append(sent, milestone)]

\* The loop of handle_first_response and handle_resolution over the milestones
\* from the i-th on: flags are the notified fields of the document in memory,
\* sent the milestones send_email was called for so far.
RECURSIVE MilestoneLoop(_, _, _, _)
MilestoneLoop(pct, flags, sent, i) ==
    IF i > Len(Milestones) THEN [flags |-> flags, sent |-> sent]
    ELSE LET milestone == Milestones[i]
         IN  IF pct < milestone THEN MilestoneLoop(pct, flags, sent, i + 1)
             ELSE IF flags[milestone] THEN MilestoneLoop(pct, flags, sent, i + 1)
             ELSE MilestoneLoop(pct, [flags EXCEPT ![milestone] = TRUE],
                                Append(sent, milestone), i + 1)

\* handle_first_response without its guard.
HandleFirstResponseNoGuard(ticket, doc, t) ==
    LET pct == get_percentage(ticket.creation, ticket.response_by, t)
        r == MilestoneLoop(pct, doc.fr, <<>>, 1)
    IN  [saved |-> TRUE, doc |-> [doc EXCEPT !.fr = r.flags],
         sent |-> r.sent, pct |-> pct]

\* handle_first_response(ticket, sla_update) at time t: the document to save
\* and the milestones mailed, or nothing at all when the guard returns.
handle_first_response(ticket, doc, t) ==
    IF IsSet(ticket.first_response_time)
    THEN [saved |-> FALSE, doc |-> doc, sent |-> <<>>, pct |-> 0]
    ELSE LET pct == get_percentage(ticket.creation, ticket.response_by, t)
             r == MilestoneLoop(pct, doc.fr, <<>>, 1)
         IN  [saved |-> TRUE, doc |-> [doc EXCEPT !.fr = r.flags],
              sent |-> r.sent, pct |-> pct]

\* handle_resolution(ticket, sla_update) at time t.
handle_resolution(ticket, doc, t) ==
    IF IsSet(ticket.resolution_time)
    THEN [saved |-> FALSE, doc |-> doc, sent |-> <<>>, pct |-> 0]
    ELSE LET pct == get_percentage(ticket.creation, ticket.resolution_by, t)
             r == MilestoneLoop(pct, doc.res, <<>>, 1)
         IN  [saved |-> TRUE, doc |-> [doc EXCEPT !.res = r.flags],
              sent |-> r.sent, pct |-> pct]

\* record_first_response_time(ticket, sla_update) at time t.
record_first_response_time(ticket, doc, t) ==
    IF ticket.status = "In-Progress" /\ ~IsSet(doc.first_responded_on)
    THEN [doc EXCEPT !.first_responded_on = Some(t)]
    ELSE doc

\* record_resolution_time without the test that the date is still unset.
RecordResolutionTimeAlways(ticket, doc) ==
    IF IsSet(ticket.resolution_date)
    THEN [doc EXCEPT !.resolution_date = ticket.resolution_date]
    ELSE doc

\* record_resolution_time(ticket, sla_update).
record_resolution_time(ticket, doc) ==
    IF IsSet(ticket.resolution_date) /\ ~IsSet(doc.resolution_date)
    THEN [doc EXCEPT !.resolution_date = ticket.resolution_date]
    ELSE doc

\* get_or_create_sla_update without the lookup: a new document every time.
GetOrCreateAlwaysNew(table, name) ==
    [table EXCEPT ![name] = Some(NewSlaUpdate)]

\* get_or_create_sla_update(ticket_name): the table after the call; the
\* document returned is the one the table then holds for the ticket.
get_or_create_sla_update(table, name) ==
    IF IsSet(table[name]) THEN table
    ELSE [table EXCEPT ![name] = Some(NewSlaUpdate)]

\* get_tickets_by_status without the filter on the status.
GetTicketsOfAnyStatus(status_list) ==
    {n \in Tickets : tickets[n].status \in Statuses}

\* get_tickets_by_status(status_list): the names frappe.get_all returns.
get_tickets_by_status(status_list) ==
    {n \in Tickets : tickets[n].status \in status_list}

\* The list frappe.get_all returns for a set of names: taken to be by name.
RECURSIVE Listed(_)
Listed(S) ==
    IF S = {} THEN <<>>
    ELSE LET n == CHOOSE x \in S : \A y \in S : x <= y
         IN  <<n>> \o Listed(S \ {n})

\* [frappe.get_doc("HD Ticket", name) for name in names]
Docs(q) == [i \in 1..Len(q) |-> tickets[q[i]]]

\* close_resolved_tickets closing at the end of the second day already.
CloseResolvedAtBoundary(table, t) ==
    [n \in Tickets |->
        IF /\ table[n].status = "Resolved"
           /\ IsSet(table[n].resolution_date)
           /\ Val(table[n].resolution_date) + GraceDays <= t
        THEN [table[n] EXCEPT !.status = "Closed"]
        ELSE table[n]]

\* close_resolved_tickets fetching every ticket that is not Closed.
CloseResolvedAnyStatus(table, t) ==
    [n \in Tickets |->
        IF /\ table[n].status # "Closed"
           /\ IsSet(table[n].resolution_date)
           /\ Val(table[n].resolution_date) + GraceDays < t
        THEN [table[n] EXCEPT !.status = "Closed"]
        ELSE table[n]]

\* close_resolved_tickets(): the HD Ticket table after the call at time t.  A
\* Resolved ticket without a resolution date is left alone: add_days of an
\* absent date counts from now.
close_resolved_tickets(table, t) ==
    [n \in Tickets |->
        IF /\ table[n].status = "Resolved"
           /\ IsSet(table[n].resolution_date)
           /\ Val(table[n].resolution_date) + GraceDays < t
        THEN [table[n] EXCEPT !.status = "Closed"]
        ELSE table[n]]

\* send_email(ticket, sla_type, milestone) for each milestone of sent: the
\* calls counted per (ticket, dimension, milestone).  Whether a call mails
\* depends on the assignee it looks up; it changes nothing in either table.
send_email(counts, name, sla_type, sent) ==
    [k \in Tickets \X Dimensions \X MilestoneSet |->
        IF k[1] = name /\ k[2] = sla_type /\ \E i \in 1..Len(sent) : sent[i] = k[3]
        THEN Min(counts[k] + 1, 2)
        ELSE counts[k]]

\* get_ticket_assignee_email(ticket_name): the email of the user the first
\* Open ToDo of the ticket is allocated to; None without such a ToDo.
get_ticket_assignee_email(name) ==
    IF ~IsSet(assignees[name]) THEN None ELSE EmailOf(Val(assignees[name]))

\* send_email mailing whatever the lookup gave.
SendmailWithoutLookup(mails, name, sla_type, sent) ==
    send_email(mails, name, sla_type, sent)

\* The part of send_email after the lookup, for each milestone of sent:
\* frappe.sendmail is called, once per milestone, when the lookup gave an
\* email, and not at all when it gave none.  The mails counted per (ticket,
\* dimension, milestone).
sendmail(mails, name, sla_type, sent) ==
    IF IsSet(get_ticket_assignee_email(name))
    THEN send_email(mails, name, sla_type, sent)
    ELSE mails

\* ------------------------------------------------------------ initial state

NewTicket(n, plan) ==
    [name |-> n, status |-> "Open", creation |-> plan.creation,
     response_by |-> plan.response_by, resolution_by |-> plan.resolution_by,
     first_response_time |-> None, resolution_time |-> None,
     resolution_date |-> None]

\* The state of the one scheduled run() and of its world.
InitRun ==
    /\ now = 0
    /\ tickets = [n \in Tickets |-> NewTicket(n, PlanOf(n))]
    /\ slaUpdates = [n \in Tickets |-> None]
    /\ pc = "idle"
    /\ queue = <<>>
    /\ notified = [k \in Tickets \X Dimensions \X MilestoneSet |-> 0]
    /\ lastEval = None
    /\ cycle = NoCycle
    /\ quiet = FALSE
    /\ envChanges = 0
    /\ failures = 0
    /\ mailed = [k \in Tickets \X Dimensions \X MilestoneSet |-> 0]

\* Every ticket is assigned to a user with an email.
AllAssigned == [n \in Tickets |-> Some("agent")]

Init ==
    /\ InitRun
    /\ assignees = AllAssigned
    /\ store = [unique |-> TRUE, rows |-> <<>>]
    /\ workers = [w \in Workers |-> IdleWorker]
    /\ calc = NoCalc

\* ------------------------------------------------------------------- run()

\* run() is called and fetches the tickets of every status for its first loop.
StartRun ==
    /\ pc = "idle"
    /\ queue' = Docs(Listed(get_tickets_by_status(Statuses)))
    /\ cycle' = [NewCycle(cycle.ended = "returned" /\ quiet, slaUpdates)
                    EXCEPT !.fetched["state"] = get_tickets_by_status(Statuses)]
    /\ pc' = "state"
    /\ quiet' = TRUE
    /\ UNCHANGED <<now, tickets, slaUpdates, notified, lastEval, envChanges, failures,
                   assignees, aside, mailed>>

\* One pass of the first loop: the Sla Update of the ticket is fetched or
\* created and the two recorders run on it.
RecordStep ==
    /\ pc = "state"
    /\ queue # <<>>
    /\ LET ticket == Head(queue)
           table == get_or_create_sla_update(slaUpdates, ticket.name)
           doc == record_resolution_time(ticket,
                      record_first_response_time(ticket, Val(table[ticket.name]), now))
       IN  /\ slaUpdates' = [table EXCEPT ![ticket.name] = Some(doc)]
           /\ cycle' = [cycle EXCEPT !.visited["state"] = @ \cup {ticket.name}]
    /\ queue' = Tail(queue)
    /\ UNCHANGED <<now, tickets, pc, notified, lastEval, quiet, envChanges, failures,
                   assignees, aside, mailed>>

\* The second loop beginning while the first still has tickets to visit.
FetchOpenEarly ==
    /\ pc = "state"
    /\ queue' = Docs(Listed(get_tickets_by_status({"Open"})))
    /\ cycle' = [cycle EXCEPT !.fetched["first response"] = get_tickets_by_status({"Open"})]
    /\ pc' = "first response"
    /\ UNCHANGED <<now, tickets, slaUpdates, notified, lastEval, quiet, envChanges, failures,
                   assignees, aside, mailed>>

\* The first loop is over: the Open tickets are fetched for the second.
FetchOpen ==
    /\ pc = "state"
    /\ queue = <<>>
    /\ queue' = Docs(Listed(get_tickets_by_status({"Open"})))
    /\ cycle' = [cycle EXCEPT !.fetched["first response"] = get_tickets_by_status({"Open"})]
    /\ pc' = "first response"
    /\ UNCHANGED <<now, tickets, slaUpdates, notified, lastEval, quiet, envChanges, failures,
                   assignees, aside, mailed>>

\* One pass of a milestone loop: result is what handle_first_response or
\* handle_resolution did for ticket, the head of the queue, and before the
\* notified flags of its Sla Update as the handler found them.
Evaluate(sla_type, ticket, before, result) ==
    /\ slaUpdates' = IF result.saved
                        THEN [get_or_create_sla_update(slaUpdates, ticket.name)
                                EXCEPT ![ticket.name] = Some(result.doc)]
                        ELSE get_or_create_sla_update(slaUpdates, ticket.name)
    /\ notified' = send_email(notified, ticket.name, sla_type, result.sent)
    /\ mailed' = sendmail(mailed, ticket.name, sla_type, result.sent)
    /\ lastEval' = Some([ticket |-> ticket, sla_type |-> sla_type, pct |-> result.pct,
                         before |-> before, sent |-> result.sent])
    /\ cycle' = [cycle EXCEPT !.visited[sla_type] = @ \cup {ticket.name},
                              !.sent = IF cycle.repeat THEN @ + Len(result.sent) ELSE @]
    /\ queue' = Tail(queue)
    /\ UNCHANGED <<now, tickets, pc, quiet, envChanges, failures, assignees, aside>>

FirstResponseStep ==
    /\ pc = "first response"
    /\ queue # <<>>
    /\ LET ticket == Head(queue)
           doc == Val(get_or_create_sla_update(slaUpdates, ticket.name)[ticket.name])
       IN  Evaluate("first response", ticket, doc.fr, handle_first_response(ticket, doc, now))

\* The second loop is over: the Open and In-Progress tickets are fetched.
FetchResolution ==
    /\ pc = "first response"
    /\ queue = <<>>
    /\ queue' = Docs(Listed(get_tickets_by_status({"Open", "In-Progress"})))
    /\ cycle' = [cycle EXCEPT !.fetched["resolution"] =
                                  get_tickets_by_status({"Open", "In-Progress"})]
    /\ pc' = "resolution"
    /\ UNCHANGED <<now, tickets, slaUpdates, notified, lastEval, quiet, envChanges, failures,
                   assignees, aside, mailed>>

ResolutionStep ==
    /\ pc = "resolution"
    /\ queue # <<>>
    /\ LET ticket == Head(queue)
           doc == Val(get_or_create_sla_update(slaUpdates, ticket.name)[ticket.name])
       IN  Evaluate("resolution", ticket, doc.res, handle_resolution(ticket, doc, now))

\* The third loop is over: close_resolved_tickets() runs and run() returns.
CloseResolved ==
    /\ pc = "resolution"
    /\ queue = <<>>
    /\ tickets' = close_resolved_tickets(tickets, now)
    /\ cycle' = [cycle EXCEPT !.ended = "returned",
                              !.closedNow = {n \in Tickets : tickets'[n] # tickets[n]}]
    /\ pc' = "idle"
    /\ lastEval' = None
    /\ UNCHANGED <<now, slaUpdates, queue, notified, quiet, envChanges, failures,
                   assignees, aside, mailed>>

\* ------------------------------------------------- the world around run()

\* Time passes, between two calls of run(): a call takes no time on the
\* clock's scale.
Tick ==
    /\ pc = "idle"
    /\ \E t \in (now + 1)..MaxTime : now' = t
    /\ quiet' = FALSE
    /\ UNCHANGED <<tickets, slaUpdates, pc, queue, notified, lastEval, cycle, envChanges, failures,
                   assignees, aside, mailed>>

\* A change made by the ticketing side.  A loop of run() works on the documents
\* it fetched, so that a change shows at the next fetch at the earliest: the
\* changes are taken between the loops and between the calls.
EnvChange(n, doc) ==
    /\ queue = <<>>
    /\ envChanges < MaxEnvChanges
    /\ envChanges' = envChanges + 1
    /\ tickets' = [tickets EXCEPT ![n] = doc]
    /\ quiet' = FALSE
    /\ UNCHANGED <<now, slaUpdates, pc, queue, notified, lastEval, cycle, failures,
                   assignees, aside, mailed>>

\* An agent or the customer moves a ticket to another status.
EnvSetStatus ==
    \E n \in Tickets, s \in Statuses \ {"Resolved"} :
        /\ tickets[n].status # s
        /\ EnvChange(n, [tickets[n] EXCEPT !.status = s])

\* An agent sends the first reply: the helpdesk sets first_response_time.
EnvFirstResponse ==
    \E n \in Tickets :
        /\ ~IsSet(tickets[n].first_response_time)
        /\ EnvChange(n, [tickets[n] EXCEPT !.first_response_time = Some(1)])

\* A ticket is resolved (again): the helpdesk sets its resolution fields.
EnvResolve ==
    \E n \in Tickets :
        /\ tickets[n].resolution_date # Some(now)
        /\ EnvChange(n, [tickets[n] EXCEPT !.status = "Resolved",
                                           !.resolution_date = Some(now),
                                           !.resolution_time = Some(1)])

Env == EnvSetStatus \/ EnvFirstResponse \/ EnvResolve

Next ==
    \/ StartRun
    \/ RecordStep
    \/ FetchOpen
    \/ FirstResponseStep
    \/ FetchResolution
    \/ ResolutionStep
    \/ CloseResolved
    \/ Tick
    \/ Env

Spec == Init /\ [][Next]_vars

\* ------------------------------------------------------- run() kept running

\* A step of run(): its call by the scheduler, or its next statement.
RunStep ==
    \/ StartRun
    \/ RecordStep
    \/ FetchOpen
    \/ FirstResponseStep
    \/ FetchResolution
    \/ ResolutionStep
    \/ CloseResolved

\* run(), the clock and the tickets moving from status to status, none of
\* them being replied to or resolved.
NextLive == RunStep \/ Tick \/ EnvSetStatus

\* The scheduler goes on calling run(), and a call that has begun goes on to
\* its end.
SpecLive == Init /\ [][NextLive]_vars /\ WF_vars(RunStep)

\* ------------------------------------------------------------- assignment

\* What the lookup of the first Open ToDo of a ticket can give.
Assignments == {None} \cup {Some(user) : user \in Users}

\* A ToDo of a ticket is opened, closed or allocated to another user.  As
\* with the changes of tickets, the change is taken between the loops and
\* between the calls.
EnvAssign ==
    \E n \in Tickets, a \in Assignments :
        /\ queue = <<>>
        /\ envChanges < MaxEnvChanges
        /\ assignees[n] # a
        /\ assignees' = [assignees EXCEPT ![n] = a]
        /\ envChanges' = envChanges + 1
        /\ quiet' = FALSE
        /\ UNCHANGED <<now, tickets, slaUpdates, pc, queue, notified, lastEval, cycle,
                       failures, mailed, aside>>

\* The tickets start with any assignment.
InitAssignment ==
    /\ InitRun
    /\ assignees \in [Tickets -> Assignments]
    /\ store = [unique |-> TRUE, rows |-> <<>>]
    /\ workers = [w \in Workers |-> IdleWorker]
    /\ calc = NoCalc

\* run() and the clock, with the assignments the only thing that changes
\* around them: the tickets stay Open and without a reply.
NextWithAssignment ==
    \/ StartRun
    \/ RecordStep
    \/ FetchOpen
    \/ FirstResponseStep
    \/ FetchResolution
    \/ ResolutionStep
    \/ CloseResolved
    \/ Tick
    \/ EnvAssign

SpecWithAssignment == InitAssignment /\ [][NextWithAssignment]_vars

\* ------------------------------------------- store and transport failures

\* An exception leaves run(): nothing in run() catches one, so the call is
\* over, with the rest of the loop and everything after it not done.
Raise ==
    /\ failures < MaxFailures
    /\ failures' = failures + 1
    /\ pc' = "idle"
    /\ queue' = <<>>
    /\ cycle' = [cycle EXCEPT !.ended = "raised", !.failedOn = {Head(queue).name}]
    /\ UNCHANGED <<now, tickets, quiet, envChanges, assignees, aside>>

\* A save of the first loop fails: the one of record_first_response_time, or
\* the one of record_resolution_time after the first went through.
RecordStepRaises ==
    /\ pc = "state"
    /\ queue # <<>>
    /\ LET ticket == Head(queue)
           table == get_or_create_sla_update(slaUpdates, ticket.name)
           doc == Val(table[ticket.name])
           first == record_first_response_time(ticket, doc, now)
       IN  \/ /\ first # doc
              /\ slaUpdates' = table
           \/ /\ record_resolution_time(ticket, first) # first
              /\ slaUpdates' = [table EXCEPT ![ticket.name] = Some(first)]
    /\ Raise
    /\ UNCHANGED <<notified, lastEval, mailed>>

\* A milestone handler fails: frappe.sendmail raises in the k-th call of
\* send_email (which looked up an email, then), or the save after the loop
\* does (k past the last call).  The mails before the k-th went out; the flags
\* set in memory are not saved.
EvaluateRaises(sla_type, ticket, result) ==
    /\ result.saved
    /\ \E k \in 1..(Len(result.sent) + 1) :
          /\ k <= Len(result.sent) => IsSet(get_ticket_assignee_email(ticket.name))
          /\ notified' = send_email(notified, ticket.name, sla_type,
                                    SubSeq(result.sent, 1, Min(k, Len(result.sent))))
          /\ mailed' = sendmail(mailed, ticket.name, sla_type,
                                SubSeq(result.sent, 1, k - 1))
    /\ slaUpdates' = get_or_create_sla_update(slaUpdates, ticket.name)
    /\ Raise
    /\ UNCHANGED lastEval

FirstResponseStepRaises ==
    /\ pc = "first response"
    /\ queue # <<>>
    /\ LET ticket == Head(queue)
           doc == Val(get_or_create_sla_update(slaUpdates, ticket.name)[ticket.name])
       IN  EvaluateRaises("first response", ticket, handle_first_response(ticket, doc, now))

ResolutionStepRaises ==
    /\ pc = "resolution"
    /\ queue # <<>>
    /\ LET ticket == Head(queue)
           doc == Val(get_or_create_sla_update(slaUpdates, ticket.name)[ticket.name])
       IN  EvaluateRaises("resolution", ticket, handle_resolution(ticket, doc, now))

NextWithFailures ==
    \/ Next
    \/ RecordStepRaises
    \/ FirstResponseStepRaises
    \/ ResolutionStepRaises

SpecWithFailures == Init /\ [][NextWithFailures]_vars

\* ------------------------------------------------ calls of run() that overlap

\* Two scheduler workers are each in a call of run(), in a pass of its second
\* loop: get_or_create_sla_update, then handle_first_response.  The steps of
\* a pass are the statements between two accesses of the database; those of
\* the two workers interleave freely.  The Sla Update table is a sequence of
\* rows here, so that two rows of one ticket can be told apart.

\* The rows of the Sla Update table with ticket_id = name.
RowsOf(name) == {i \in 1..Len(store.rows) : store.rows[i].ticket_id = name}

RunVars == <<tickets, slaUpdates, pc, queue, notified, lastEval, cycle, quiet,
             envChanges, failures, assignees>>

\* The worker leaves run(): the pass is over, or an exception ends the call.
Leave(w, error) ==
    workers' = [workers EXCEPT ![w] = [IdleWorker EXCEPT !.error = error]]

\* for ticket in first_response_tickets: the worker begins the first pass of
\* the loop, that of the first Open ticket of the list, where the two calls
\* meet; the later passes are as in run() above.
WorkerStart(w) ==
    /\ workers[w].pc = "idle"
    /\ LET open == Listed(get_tickets_by_status({"Open"}))
       IN  /\ open # <<>>
           /\ workers' = [workers EXCEPT ![w] = [IdleWorker EXCEPT !.pc = "lookup",
                                                                  !.ticket = Some(Head(open))]]
    /\ UNCHANGED <<now, RunVars, mailed, store, calc>>

\* existing = frappe.get_all(...): with a row found the worker loads the
\* first, existing[0], and goes on to the handler; with none it goes on to
\* the insert.  Which of several rows of a ticket comes first is not fixed.
WorkerLookup(w) ==
    /\ workers[w].pc = "lookup"
    /\ LET existing == RowsOf(Val(workers[w].ticket))
       IN  IF existing = {}
           THEN workers' = [workers EXCEPT ![w].pc = "insert"]
           ELSE \E i \in existing :
                  workers' = [workers EXCEPT ![w].pc = "handle",
                                             ![w].row = Some(i),
                                             ![w].doc = Some(store.rows[i].doc)]
    /\ UNCHANGED <<now, RunVars, mailed, store, calc>>

\* doc.insert(ignore_permissions=True); frappe.db.commit(): the row is added.
\* Nothing tests for a row another worker added since the lookup: a table
\* with a unique ticket_id refuses the second row and the exception leaves
\* run(); a table without takes it.
WorkerInsert(w) ==
    /\ workers[w].pc = "insert"
    /\ LET n == Val(workers[w].ticket)
       IN  IF store.unique /\ RowsOf(n) # {}
           THEN /\ Leave(w, "duplicate")
                /\ UNCHANGED store
           ELSE /\ store' = [store EXCEPT !.rows =
                                Append(@, [ticket_id |-> n, doc |-> NewSlaUpdate])]
                /\ workers' = [workers EXCEPT ![w].pc = "handle",
                                              ![w].row = Some(Len(store.rows) + 1),
                                              ![w].doc = Some(NewSlaUpdate)]
    /\ UNCHANGED <<now, RunVars, mailed, calc>>

\* handle_first_response up to its save: the mails go out and the flags are
\* set in the worker's copy of the row.
WorkerHandle(w) ==
    /\ workers[w].pc = "handle"
    /\ LET n == Val(workers[w].ticket)
           result == handle_first_response(tickets[n], Val(workers[w].doc), now)
       IN  /\ mailed' = sendmail(mailed, n, "first response", result.sent)
           /\ IF result.saved
              THEN workers' = [workers EXCEPT ![w].pc = "save",
                                              ![w].doc = Some(result.doc)]
              ELSE Leave(w, "none")
    /\ UNCHANGED <<now, RunVars, store, calc>>

\* sla_update.save(); frappe.db.commit(): the worker's copy replaces the row,
\* and the copies other workers hold of it are stale from now on.  The save
\* of a stale copy is refused (the document was modified after it was
\* loaded) and the exception leaves run().
WorkerSave(w) ==
    /\ workers[w].pc = "save"
    /\ IF workers[w].stale
       THEN /\ Leave(w, "timestamp")
            /\ UNCHANGED store
       ELSE /\ store' = [store EXCEPT !.rows[Val(workers[w].row)].doc = Val(workers[w].doc)]
            /\ workers' = [v \in Workers |->
                             IF v = w THEN IdleWorker
                             ELSE IF workers[v].row = workers[w].row
                                  THEN [workers[v] EXCEPT !.stale = TRUE]
                                  ELSE workers[v]]
    /\ UNCHANGED <<now, RunVars, mailed, calc>>

\* The Sla Update doctype is not part of the source: whether its ticket_id is
\* declared unique is open, and both kinds of table are taken.
InitOverlap ==
    /\ InitRun
    /\ assignees = AllAssigned
    /\ store \in [unique : BOOLEAN, rows : {<<>>}]
    /\ workers = [w \in Workers |-> IdleWorker]
    /\ calc = NoCalc

NextOverlap ==
    \/ \E w \in Workers :
          \/ WorkerStart(w)
          \/ WorkerLookup(w)
          \/ WorkerInsert(w)
          \/ WorkerHandle(w)
          \/ WorkerSave(w)
    \/ Tick

SpecOverlap == InitOverlap /\ [][NextOverlap]_vars

\* ------------------------------------------------- get_percentage on its own

\* The values start and due are called with: a date of the range, or None.
CalcDates == {None} \cup {Some(d) : d \in 0..MaxCalcTime}

\* get_percentage is about to be called with any start and due, at any time.
InitPercentage ==
    /\ InitRun
    /\ assignees = AllAssigned
    /\ store = [unique |-> TRUE, rows |-> <<>>]
    /\ workers = [w \in Workers |-> IdleWorker]
    /\ calc \in [start : CalcDates, due : CalcDates, t : 0..MaxCalcTime, result : {None}]

\* The call returns.
GetPercentage ==
    /\ ~IsSet(calc.result)
    /\ calc' = [calc EXCEPT !.result = Some(get_percentage(calc.start, calc.due, calc.t))]
    /\ UNCHANGED <<now, RunVars, mailed, store, workers>>

SpecPercentage == InitPercentage /\ [][GetPercentage]_vars

\* ================================================================ claims

Triples == Tickets \X Dimensions \X MilestoneSet

\* The notified flags of a ticket's Sla Update for one dimension; all false
\* while the ticket has no Sla Update.
FlagsOf(table, n, sla_type) ==
    IF ~IsSet(table[n]) THEN NoFlags
    ELSE IF sla_type = "first response" THEN Val(table[n]).fr ELSE Val(table[n]).res

\* The milestones of Milestones, in their order, that satisfy Test.
Crossed(Test(_)) == SelectSeq(Milestones, Test)

\* ---- C1
\* C1: over any sequence of calls of run(), with the tickets changing and time
\* passing in between, send_email is called at most once for each (ticket,
\* dimension, milestone), and only for a triple whose notified flag is then set.
C1_NotifiedAtMostOnce ==
    \A k \in Triples :
        /\ notified[k] <= 1
        /\ notified[k] = 1 <=> FlagsOf(slaUpdates, k[1], k[2])[k[3]]

\* A later evaluation found the flag of a milestone set, with the percentage
\* at or past it and the guard open, after the one mail for it had gone out.
C1_Witness ==
    /\ IsSet(lastEval)
    /\ LET e == Val(lastEval)
       IN  /\ e.sla_type = "first response"
           /\ ~IsSet(e.ticket.first_response_time)
           /\ e.before[50] /\ e.pct >= 50
           /\ e.sent = <<>>
           /\ notified[<<e.ticket.name, "first response", 50>>] = 1

\* ---- C2
\* C2: in every step (timestamp recording, first-response evaluation,
\* resolution evaluation, closing, and the steps of the ticketing side) each of
\* the six notified flags of every Sla Update that is true stays true.
C2_FlagsMonotonic ==
    [][\A k \in Triples :
          FlagsOf(slaUpdates, k[1], k[2])[k[3]] => FlagsOf(slaUpdates', k[1], k[2])[k[3]]]_vars

\* A ticket with flags of both dimensions set has since had both timestamps
\* recorded and was closed by close_resolved_tickets.
C2_Witness ==
    \E n \in Tickets :
        /\ n \in cycle.closedNow
        /\ IsSet(slaUpdates[n])
        /\ Val(slaUpdates[n]).fr[50] /\ Val(slaUpdates[n]).res[50]
        /\ IsSet(Val(slaUpdates[n]).first_responded_on)
        /\ IsSet(Val(slaUpdates[n]).resolution_date)

\* ---- C3
\* C3: first_responded_on and resolution_date of an Sla Update are written
\* once: no step changes either once it is set; first_responded_on is set only
\* by the first loop of run() on a ticket it fetched as In-Progress, to the
\* time of the call, and resolution_date only by that loop on a ticket fetched
\* with a resolution date, to that date.
C3_TimestampsWriteOnce ==
    [][\A n \in Tickets :
          LET old == IF IsSet(slaUpdates[n]) THEN Val(slaUpdates[n]) ELSE NewSlaUpdate
              new == IF IsSet(slaUpdates'[n]) THEN Val(slaUpdates'[n]) ELSE NewSlaUpdate
              recording == pc = "state" /\ queue # <<>> /\ Head(queue).name = n
          IN  /\ IsSet(old.first_responded_on) =>
                    new.first_responded_on = old.first_responded_on
              /\ IsSet(old.resolution_date) => new.resolution_date = old.resolution_date
              /\ new.first_responded_on # old.first_responded_on =>
                    /\ recording
                    /\ Head(queue).status = "In-Progress"
                    /\ new.first_responded_on = Some(now)
              /\ new.resolution_date # old.resolution_date =>
                    /\ recording
                    /\ IsSet(Head(queue).resolution_date)
                    /\ new.resolution_date = Head(queue).resolution_date]_vars

\* A call of run() has returned, undisturbed, that found a ticket with another
\* resolution date than the one recorded from it earlier.
C3_Witness ==
    /\ cycle.ended = "returned"
    /\ quiet
    /\ \E n \in cycle.visited["state"] :
          /\ IsSet(slaUpdates[n])
          /\ IsSet(Val(slaUpdates[n]).resolution_date)
          /\ IsSet(tickets[n].resolution_date)
          /\ tickets[n].resolution_date # Val(slaUpdates[n]).resolution_date

\* ---- C4
\* C4: a milestone evaluation whose guard is open, at percentage pct, calls
\* send_email for exactly the milestones m with pct >= m whose flag was false
\* before, in ascending order, sets exactly those flags, and calls it for
\* nothing else.
C4_NewlyCrossedOnly ==
    IsSet(lastEval) =>
        LET e == Val(lastEval)
            open == IF e.sla_type = "first response"
                    THEN ~IsSet(e.ticket.first_response_time)
                    ELSE ~IsSet(e.ticket.resolution_time)
            Due(m) == e.pct >= m /\ ~e.before[m]
            after == FlagsOf(slaUpdates, e.ticket.name, e.sla_type)
        IN  open =>
              /\ e.sent = Crossed(Due)
              /\ \A m \in MilestoneSet : after[m] <=> (e.before[m] \/ Due(m))
              /\ \A m \in MilestoneSet :
                    notified[<<e.ticket.name, e.sla_type, m>>] = IF after[m] THEN 1 ELSE 0

\* The second evaluation of the scenario: 50 was mailed at 60% (ticket 1 is at
\* 60% or 70% whenever it is between 50% and 75%), and now, past the deadline,
\* 75 and 100 are mailed and 50 is not.
C4_Witness ==
    /\ IsSet(lastEval)
    /\ LET e == Val(lastEval)
       IN  /\ e.ticket.name = 1
           /\ e.sla_type = "first response"
           /\ e.before[50] /\ ~e.before[75] /\ ~e.before[100]
           /\ e.pct = 100
           /\ e.sent = <<75, 100>>

\* ---- C5
\* The deadline of the dimension of an evaluation.
DueOf(e) ==
    IF e.sla_type = "first response" THEN e.ticket.response_by ELSE e.ticket.resolution_by

\* The window of the dimension of an evaluation is 90% over.
NinetyPercentElapsed(e) ==
    /\ IsSet(e.ticket.creation) /\ IsSet(DueOf(e))
    /\ Val(DueOf(e)) > Val(e.ticket.creation)
    /\ (now - Val(e.ticket.creation)) * 100 = 90 * (Val(DueOf(e)) - Val(e.ticket.creation))

\* The first evaluation of a ticket in a dimension, with the guard open.
FirstEvaluation(e) ==
    /\ IF e.sla_type = "first response"
       THEN ~IsSet(e.ticket.first_response_time)
       ELSE ~IsSet(e.ticket.resolution_time)
    /\ e.before = NoFlags

\* C5 as stated: a ticket with the guard open and no flag set, evaluated for
\* the first time when 90% of its window has elapsed, has 50, 75 and 100
\* mailed, in that order, in that one evaluation.
C5_CatchUpAtNinety ==
    IsSet(lastEval) =>
        LET e == Val(lastEval)
        IN  FirstEvaluation(e) /\ NinetyPercentElapsed(e) => e.sent = <<50, 75, 100>>

\* C5 as amended: such a ticket has 50 and 75 mailed, in that order, and their
\* flags set, and 100 neither mailed nor flagged; 100 comes with them only when
\* the first evaluation finds the whole window elapsed.
C5_CatchUpBelowDeadline ==
    IsSet(lastEval) =>
        LET e == Val(lastEval)
            after == FlagsOf(slaUpdates, e.ticket.name, e.sla_type)
        IN  FirstEvaluation(e) =>
              /\ NinetyPercentElapsed(e) =>
                    /\ e.sent = <<50, 75>>
                    /\ after[50] /\ after[75] /\ ~after[100]
              /\ e.sent = <<50, 75, 100>> =>
                    now - Val(e.ticket.creation) >= Val(DueOf(e)) - Val(e.ticket.creation)

\* A first first-response evaluation at 90% has taken place.
C5_Witness ==
    /\ IsSet(lastEval)
    /\ Val(lastEval).sla_type = "first response"
    /\ FirstEvaluation(Val(lastEval))
    /\ NinetyPercentElapsed(Val(lastEval))
    /\ Val(lastEval).pct = 90

\* ---- C6
\* C6: an evaluation of a ticket fetched with first_response_time set (for
\* first response) or resolution_time set (for resolution) calls send_email
\* for nothing and leaves the flags of its dimension as they were, whatever
\* the elapsed percentage and the flags.
C6_GuardSilences ==
    IsSet(lastEval) =>
        LET e == Val(lastEval)
            guarded == IF e.sla_type = "first response"
                       THEN IsSet(e.ticket.first_response_time)
                       ELSE IsSet(e.ticket.resolution_time)
        IN  guarded =>
              /\ e.sent = <<>>
              /\ FlagsOf(slaUpdates, e.ticket.name, e.sla_type) = e.before
              /\ \A m \in MilestoneSet :
                    notified[<<e.ticket.name, e.sla_type, m>>] = IF e.before[m] THEN 1 ELSE 0

\* An Open ticket that was replied to is evaluated for first response past its
\* deadline with the 100 flag (at least) not set.
C6_Witness ==
    /\ IsSet(lastEval)
    /\ LET e == Val(lastEval)
       IN  /\ e.sla_type = "first response"
           /\ IsSet(e.ticket.first_response_time)
           /\ now >= Val(e.ticket.response_by)
           /\ ~e.before[100]
           /\ e.sent = <<>>

\* ---- C7
\* C7: a call of run() that follows a returned call, with no change of a
\* ticket and no passing of time since that call began, calls send_email for
\* nothing and leaves the Sla Update table as it found it.
C7_RepeatedCycleIdle ==
    (cycle.repeat /\ quiet) =>
        /\ cycle.sent = 0
        /\ cycle.before = Some(slaUpdates)

\* Such a second call has returned, the first having set flags for both
\* tickets, and has gone through all three loops for a ticket.
C7_Witness ==
    /\ cycle.repeat /\ quiet
    /\ cycle.ended = "returned"
    /\ cycle.visited["resolution"] # {}
    /\ cycle.visited["first response"] = Tickets
    /\ \A n \in Tickets : IsSet(slaUpdates[n]) /\ Val(slaUpdates[n]).fr[50]

\* ---- C8
\* The step in which close_resolved_tickets runs.
Closing == pc = "resolution" /\ queue = <<>> /\ pc' = "idle"

\* C8 as stated: when close_resolved_tickets has run at time now, every ticket
\* that was Resolved with resolution_date + 2 days <= now is Closed and every
\* Resolved ticket with resolution_date + 2 days > now is still Resolved.
C8_ClosesAtBoundary ==
    [][Closing =>
         \A n \in Tickets :
            (tickets[n].status = "Resolved" /\ IsSet(tickets[n].resolution_date)) =>
               IF Val(tickets[n].resolution_date) + GraceDays <= now
               THEN tickets'[n].status = "Closed"
               ELSE tickets'[n].status = "Resolved"]_vars

\* C8 as amended: every ticket that was Resolved with resolution_date + 2 days
\* < now is Closed, and every Resolved ticket with resolution_date + 2 days
\* >= now (the boundary included) is still Resolved.
C8_ClosesPastBoundary ==
    [][Closing =>
         \A n \in Tickets :
            (tickets[n].status = "Resolved" /\ IsSet(tickets[n].resolution_date)) =>
               IF Val(tickets[n].resolution_date) + GraceDays < now
               THEN tickets'[n].status = "Closed"
               ELSE tickets'[n].status = "Resolved"]_vars

\* close_resolved_tickets has just closed one ticket and left another, which
\* was resolved exactly two days ago, Resolved.
C8_Witness ==
    /\ pc = "idle"
    /\ cycle.ended = "returned"
    /\ quiet
    /\ cycle.closedNow # {}
    /\ \E n \in Tickets :
          /\ tickets[n].status = "Resolved"
          /\ tickets[n].resolution_date = Some(now - GraceDays)

\* ---- C9
\* C9: a step of run() changes a ticket in one way only: close_resolved_tickets
\* moves a Resolved ticket to Closed.  No step of run() changes the status of
\* an Open, In-Progress or Closed ticket, and none changes another field.
C9_OnlyResolvedToClosed ==
    [][envChanges' = envChanges =>
         \A n \in Tickets :
            \/ tickets'[n] = tickets[n]
            \/ /\ Closing
               /\ tickets[n].status = "Resolved"
               /\ tickets'[n] = [tickets[n] EXCEPT !.status = "Closed"]]_vars

\* close_resolved_tickets has just closed a ticket, changing its status and
\* nothing else, at the end of a call of run() that evaluated the other ticket
\* in both milestone loops, set a flag for it and left it as it was created.
C9_Witness ==
    /\ pc = "idle"
    /\ cycle.ended = "returned"
    /\ quiet
    /\ \E n \in cycle.closedNow, o \in Tickets \ cycle.closedNow :
          /\ \E d \in 0..MaxTime :
                tickets[n] = [NewTicket(n, PlanOf(n)) EXCEPT !.status = "Closed",
                                                             !.resolution_date = Some(d),
                                                             !.resolution_time = Some(1)]
          /\ o \in cycle.visited["first response"] \cap cycle.visited["resolution"]
          /\ tickets[o] = NewTicket(o, PlanOf(o))
          /\ Val(slaUpdates[o]).fr[50]

\* ---- C10
\* C10 as stated: when a store or mail operation fails while run() works on
\* one ticket, run() goes on: by the time the call is over, every other ticket
\* a loop of the call fetched was visited by that loop, every loop took place
\* and close_resolved_tickets ran.
C10_FailureIsolation ==
    (pc = "idle" /\ cycle.failedOn # {}) =>
        /\ \A p \in Phases : cycle.fetched[p] \ cycle.failedOn \subseteq cycle.visited[p]
        /\ cycle.ended = "returned"

\* ---- C11
\* C11 as stated: whatever point a call of run() is interrupted at (a mail or
\* a save that fails, between a mail and the save of its flag or between two
\* milestones of one evaluation), no mail that went out for a (ticket,
\* dimension, milestone) goes out again in a later call.
C11_NoResendAfterInterruption ==
    \A k \in Triples : mailed[k] <= 1

\* ---- C12
\* C12 as stated: when two calls of run() interleave on one ticket, the
\* updates of the ticket are serialized: no mail goes out twice for a (ticket,
\* dimension, milestone), and no call has the flags it set refused at the
\* save because the other saved the row in between.
C12_OverlapSerialized ==
    /\ \A k \in Triples : mailed[k] <= 1
    /\ \A w \in Workers : workers[w].error # "timestamp"

\* ---- C13
\* C13 as stated: the Sla Update table never holds two rows of one ticket, and
\* get_or_create_sla_update, also when two calls of it for one ticket
\* interleave, ends with the row of the ticket and never with the creation
\* conflict.
C13_OneRowPerTicket ==
    /\ \A n \in Tickets : Cardinality(RowsOf(n)) <= 1
    /\ \A w \in Workers : workers[w].error # "duplicate"

\* ---- C14
\* C14: for every start, due and time of the range, get_percentage returns 0
\* when start or due is absent; otherwise 100 when due <= start; otherwise
\* 100 when the whole window has elapsed and else the (whole) percentage of
\* the window that has, with no lower clamp: before start the result is
\* negative and below every milestone.
C14_PercentageAsDefined ==
    IsSet(calc.result) =>
        LET r == Val(calc.result)
        IN  IF ~IsSet(calc.start) \/ ~IsSet(calc.due) THEN r = 0
            ELSE LET start == Val(calc.start)
                     due == Val(calc.due)
                 IN  IF due <= start THEN r = 100
                     ELSE /\ calc.t >= due => r = 100
                          /\ calc.t < due =>
                                /\ r * (due - start) <= 100 * (calc.t - start)
                                /\ 100 * (calc.t - start) < (r + 1) * (due - start)
                          /\ calc.t < start =>
                                /\ r < 0
                                /\ \A milestone \in MilestoneSet : r < milestone

\* A call before the start of a window has returned a negative percentage.
C14_Witness ==
    /\ IsSet(calc.result)
    /\ IsSet(calc.start) /\ IsSet(calc.due)
    /\ calc.t < Val(calc.start) /\ Val(calc.start) < Val(calc.due)
    /\ Val(calc.result) < 0

\* ---- C15
\* C15 as stated: for every start, due and time, absent values and a time
\* before start included, the result of get_percentage is in [0, 100].
C15_PercentageInRange ==
    IsSet(calc.result) => Val(calc.result) \in 0..100

\* C15 as amended: the result is at most 100 for every input; it is at least
\* 0 when start or due is absent, when due <= start, and when the time is not
\* before start; for a time before the start of a window it is negative.
C15_PercentageAtMostHundred ==
    IsSet(calc.result) =>
        LET r == Val(calc.result)
            window == /\ IsSet(calc.start) /\ IsSet(calc.due)
                      /\ Val(calc.start) < Val(calc.due)
        IN  /\ r <= 100
            /\ IF window /\ calc.t < Val(calc.start) THEN r < 0 ELSE r >= 0

\* A call a whole window's length (or more) before the start of the window
\* has returned -100 or less.
C15_Witness ==
    /\ IsSet(calc.result)
    /\ IsSet(calc.start) /\ IsSet(calc.due)
    /\ Val(calc.start) < Val(calc.due)
    /\ Val(calc.start) - calc.t >= Val(calc.due) - Val(calc.start)
    /\ Val(calc.result) <= 0 - 100

\* ---- C16
\* The milestone loop of phase p visits a ticket in this step.
Evaluating(p) == cycle'.visited[p] \ cycle.visited[p] # {}

\* C16: in a call of run(), a ticket is evaluated for a milestone only after
\* the recorders have run on every ticket (of any of the four statuses) and
\* before close_resolved_tickets; a ticket is evaluated for resolution only
\* after every ticket fetched as Open was evaluated for first response;
\* close_resolved_tickets runs after both milestone loops have visited all
\* they fetched, once, and the call returns with it and in no other way.
C16_FixedOrder ==
    [][/\ \A p \in {"first response", "resolution"} :
             Evaluating(p) =>
                /\ pc = p
                /\ cycle.visited["state"] = Tickets
                /\ cycle.ended = "running"
       /\ Evaluating("state") =>
             /\ cycle.visited["first response"] = {}
             /\ cycle.visited["resolution"] = {}
       /\ Evaluating("first response") => cycle.visited["resolution"] = {}
       /\ Evaluating("resolution") =>
             cycle.visited["first response"] = cycle.fetched["first response"]
       /\ (Closing \/ (tickets' # tickets /\ envChanges' = envChanges)) =>
             /\ Closing
             /\ cycle.ended = "running"
             /\ cycle.visited["state"] = Tickets
             /\ \A p \in Phases : cycle.visited[p] = cycle.fetched[p]
             /\ cycle'.ended = "returned"
       /\ (pc # "idle" /\ pc' = "idle") => Closing
       /\ (cycle.ended = "running" /\ cycle'.ended # "running") => Closing]_vars

\* A call of run() has returned that recorded a timestamp, evaluated a ticket
\* in both milestone loops, mailed for it and closed another ticket.
C16_Witness ==
    /\ pc = "idle"
    /\ cycle.ended = "returned"
    /\ cycle.closedNow # {}
    /\ cycle.visited["state"] = Tickets
    /\ cycle.visited["first response"] # {}
    /\ cycle.visited["resolution"] # {}
    /\ \E n \in cycle.visited["first response"] : notified[<<n, "first response", 50>>] = 1

\* ---- C17
\* C17: a step calls send_email for a first-response milestone of a ticket,
\* mails for it or sets its flag only in the first-response loop, at the
\* ticket, which that loop fetched as Open; it does so for a resolution
\* milestone only in the resolution loop, at the ticket, which that loop
\* fetched as Open or In-Progress.  A ticket that is Resolved or Closed at
\* both fetches of a call gets no send_email call, mail or flag in the call.
C17_StatusScoping ==
    [][(notified' # notified \/ mailed' # mailed \/ slaUpdates' # slaUpdates) =>
         \A n \in Tickets, p \in Dimensions :
            (\/ FlagsOf(slaUpdates', n, p) # FlagsOf(slaUpdates, n, p)
             \/ \E m \in MilestoneSet :
                   \/ notified'[<<n, p, m>>] # notified[<<n, p, m>>]
                   \/ mailed'[<<n, p, m>>] # mailed[<<n, p, m>>]) =>
               /\ pc = p
               /\ queue # <<>>
               /\ Head(queue).name = n
               /\ n \in cycle.fetched[p]
               /\ Head(queue).status \in
                     (IF p = "first response" THEN {"Open"} ELSE {"Open", "In-Progress"})]_vars

\* A call of run() has evaluated an In-Progress ticket for resolution and
\* mailed for it, having left its first-response flags unset although half of
\* its response window is over and no reply was sent; the other ticket, not
\* Open or In-Progress, was in neither milestone loop.
C17_Witness ==
    /\ IsSet(lastEval)
    /\ LET e == Val(lastEval)
       IN  /\ e.sla_type = "resolution"
           /\ e.ticket.status = "In-Progress"
           /\ e.sent # <<>>
           /\ ~IsSet(e.ticket.first_response_time)
           /\ get_percentage(e.ticket.creation, e.ticket.response_by, now) >= 50
           /\ FlagsOf(slaUpdates, e.ticket.name, "first response") = NoFlags
           /\ \E o \in Tickets \ {e.ticket.name} :
                 /\ tickets[o].status \in {"Resolved", "Closed"}
                 /\ o \notin cycle.fetched["first response"] \cup cycle.fetched["resolution"]
                 /\ o \in cycle.visited["state"]

\* ---- C18
\* C18: the evaluation of a ticket whose assignee lookup gives no email (no
\* Open ToDo, or a user without email) mails nothing and raises nothing (the
\* loop goes on to its next ticket), and sets the flag of every milestone
\* crossed all the same; and no step mails for a (ticket, dimension,
\* milestone) whose flag is set, so that a milestone flagged without a mail
\* is never mailed later, whoever the ticket is assigned to by then.
C18_MissingAssignee ==
    [][/\ (pc \in Dimensions /\ queue # <<>>) =>
             LET ticket == Head(queue)
                 guarded == IF pc = "first response"
                            THEN IsSet(ticket.first_response_time)
                            ELSE IsSet(ticket.resolution_time)
                 due == IF pc = "first response"
                        THEN ticket.response_by ELSE ticket.resolution_by
                 pct == get_percentage(ticket.creation, due, now)
             IN  ~IsSet(get_ticket_assignee_email(ticket.name)) =>
                    /\ mailed' = mailed
                    /\ pc' = pc
                    /\ queue' = Tail(queue)
                    /\ \A m \in MilestoneSet :
                          FlagsOf(slaUpdates', ticket.name, pc)[m] <=>
                             \/ FlagsOf(slaUpdates, ticket.name, pc)[m]
                             \/ (~guarded /\ pct >= m)
       /\ mailed' # mailed =>
             \A k \in Triples :
                mailed'[k] # mailed[k] =>
                   /\ ~FlagsOf(slaUpdates, k[1], k[2])[k[3]]
                   /\ IsSet(get_ticket_assignee_email(k[1]))]_vars

\* A ticket was flagged at 50% with no mail, send_email having found no
\* email; it was assigned to a user with an email since, and mailed at 75%,
\* and still no mail has gone out for 50%.
C18_Witness ==
    \E n \in Tickets :
        /\ FlagsOf(slaUpdates, n, "first response")[50]
        /\ notified[<<n, "first response", 50>>] = 1
        /\ mailed[<<n, "first response", 50>>] = 0
        /\ assignees[n] = Some("agent")
        /\ notified[<<n, "first response", 75>>] = 1
        /\ mailed[<<n, "first response", 75>>] = 1
        /\ pc = "idle" /\ cycle.ended = "returned" /\ quiet

\* ---- C19
\* C19: over calls of run() that each run to their end, one at a time, from
\* Sla Updates created with no flag set, the flags of each dimension of every
\* saved Sla Update are downward closed: the 100 flag is set only with the 75
\* flag, and the 75 flag only with the 50 flag.
C19_FlagsDownwardClosed ==
    \A n \in Tickets, p \in Dimensions :
        LET flags == FlagsOf(slaUpdates, n, p)
        IN  /\ flags[100] => flags[75]
            /\ flags[75] => flags[50]

\* A ticket has all three flags of one dimension set, by more than one
\* evaluation, and only the 50 flag of the other, the loop of which it left
\* before 75% of that window had elapsed.
C19_Witness ==
    \E n \in Tickets :
        /\ FlagsOf(slaUpdates, n, "resolution") = [m \in MilestoneSet |-> TRUE]
        /\ FlagsOf(slaUpdates, n, "first response") = [NoFlags EXCEPT ![50] = TRUE]
        /\ IsSet(lastEval)
        /\ Val(lastEval).ticket.name = n
        /\ Val(lastEval).sla_type = "resolution"
        /\ Val(lastEval).before[50]
        /\ Val(lastEval).sent # <<>>

\* ---- C20
\* The ticket is Open with no first reply and its response deadline is over.
ResponseOverdue(n) ==
    /\ tickets[n].status = "Open"
    /\ ~IsSet(tickets[n].first_response_time)
    /\ IsSet(tickets[n].creation) /\ IsSet(tickets[n].response_by)
    /\ now >= Val(tickets[n].response_by)

\* The ticket is Open or In-Progress, not resolved, and its resolution
\* deadline is over.
ResolutionOverdue(n) ==
    /\ tickets[n].status \in {"Open", "In-Progress"}
    /\ ~IsSet(tickets[n].resolution_time)
    /\ IsSet(tickets[n].creation) /\ IsSet(tickets[n].resolution_by)
    /\ now >= Val(tickets[n].resolution_by)

AllFlags == [m \in MilestoneSet |-> TRUE]

\* C20: with run() called again and again, a state comes again and again in
\* which every ticket that is Open without a first reply, past its response
\* deadline, has its three first-response flags set, and every ticket that
\* is Open or In-Progress and unresolved, past its resolution deadline, has
\* its three resolution flags set: a ticket that stays so has them set in
\* the end.
C20_BreachNotifiedInTheEnd ==
    []<>(\A n \in Tickets :
            /\ ResponseOverdue(n) => FlagsOf(slaUpdates, n, "first response") = AllFlags
            /\ ResolutionOverdue(n) => FlagsOf(slaUpdates, n, "resolution") = AllFlags)

\* A ticket that was taken up and put back to Open, with both deadlines over
\* by now, has all the flags of both dimensions set, the 100 flag of its
\* first-response ones by a later call of run() than the 50 flag.
C20_Witness ==
    \E n \in Tickets :
        /\ ResponseOverdue(n) /\ ResolutionOverdue(n)
        /\ envChanges = 2
        /\ FlagsOf(slaUpdates, n, "first response") = AllFlags
        /\ FlagsOf(slaUpdates, n, "resolution") = AllFlags
        /\ IsSet(lastEval)
        /\ Val(lastEval).ticket.name = n
        /\ Val(lastEval).before[50] /\ ~Val(lastEval).before[100]

====
